---- MODULE Spec2Model ----
(***************************************************************************)
(* State-machine model of terraform-runner's process layer:                *)
(*   - non_blocking_process/pool.py   : Pool, FutureNonBlockingProcess     *)
(*   - non_blocking_process/process.py: NonBlockingProcess                 *)
(*   - terraform/runner.py            : Runner, RunnerPool                 *)
(* The specifications share the module, one per component: SpecPool,       *)
(* SpecProc, SpecPlan (with SpecPlanFair for termination), SpecRunnerPool  *)
(* and SpecRunner.  Each leaves the other components' variables at their   *)
(* initial values.                                                         *)
(***************************************************************************)
EXTENDS Integers, Sequences, FiniteSets, TLC

(***************************************************************************)
(* Bounds of the model.                                                    *)
(***************************************************************************)
\* Pool(workers=NumWorkers): the number of slots.
NumWorkers == 2
\* Futures created by Pool.queue over one run (more than there are slots).
MaxJobs == 3

\* Characters one NonBlockingProcess writes over its life, both streams together.
MaxWrites == 2
\* Plan processes one call of Runner.plan may spawn (the call and its re-issues).
MaxAttempts == 2
\* runner.py:81 -- for _ in range(120): the probe loop's iterations, scaled down.
ProbeCap == 3
\* The largest max_concurrency a RunnerPool is given.
MaxConcurrency == 2
\* Jobs one Runner call of a RunnerPool queues (plan, then init, ...).
MaxCallJobs == 3
\* process.py:22 -- bytearray(io.DEFAULT_BUFFER_SIZE): the most one readinto
\* takes.  The model keeps the ratio "a transcript can exceed one buffer"
\* with a buffer of one character.
ReadBufSize == 1

\* Threads that call Pool.queue and then use the deferred handle.
Clients == {"t1", "t2"}

Slots == 1..NumWorkers
Jobs == 1..MaxJobs
\* A NonBlockingProcess of the pool is named by its spawn rank.
Pids == 1..MaxJobs
\* Operations a client issues on a deferred handle: an attribute read
\* (the returncode property), an attribute write, a method call (wait).
HandleOps == {"returncode", "setattr", "wait"}

VARIABLES
    \* ---- Pool (pool.py) ----
    pool,        \* Pool.pool: slot -> 0 (None) or the pid occupying it
    job_queue,   \* Pool.job_queue: sequence of job ids (futures) in put order
    shutdown,    \* Pool._shutdown: the threading.Event
    mgr,         \* the manager thread: [pc, job, i]
    sd,          \* the thread calling Pool.shutdown(): [pc, i]
    future,      \* FutureNonBlockingProcess._future per job: 0 or the bound pid
    nfut,        \* futures created so far
    pstate,      \* per pid: "none", "running" or "exited" (process.poll())
    pargs,       \* per pid: the job whose arguments it was spawned with
    npid,        \* processes spawned so far
    cl,          \* per client thread: [pc, h, op, early, on, val]
    enqOrder,    \* history: jobs in the order job_queue.put accepted them
    \* ---- NonBlockingProcess (process.py) ----
    returncode,  \* process.poll(): "None" while the process runs
    written,     \* per stream: characters the process has written (1..n)
    wopen,       \* per stream: the process still holds the pipe's write end
    taken,       \* per stream: characters the reader has read off the pipe
    rd,          \* per stream: the reader thread [pc, size]
    strq,        \* per stream: the queue.Queue of decoded chunks
    buf,         \* per stream: the io.StringIO [data, pos]
    api,         \* the public method holding self._lock, if any
    waited,      \* history: some wait() has returned
    \* ---- Runner.plan (runner.py) ----
    process,     \* the plan process of the current plan() frame: [out, err, rc]
    init_process,\* the init process of the current plan() frame: [spawned, rc]
    pl,          \* the thread in plan(): [pc, probe, out, err, ret, inits, attempt]
    nplan,       \* plan processes spawned so far
    \* ---- RunnerPool (runner.py) ----
    rp,          \* the RunnerPool and the generator of one operation
    rp_results,  \* RunnerPool._results: [keys, fut], an OrderedDict project -> future
    rp_th,       \* per submitted Runner call: [pc, proc, njob, ret]
    rp_queue,    \* the shared Pool's job_queue: the calls whose job is queued
    rp_slots,    \* the shared Pool's pool: per slot <<call, job>> or <<>> (None)
    rp_mgr,      \* the shared Pool's manager thread: [pc]
    rp_yield,    \* history: the (project, handle) pairs yielded so far
    \* ---- Runner.init, Runner.apply, Runner.state (runner.py) ----
    rn,          \* the thread in a Runner operation, with the call's counts
    pull,        \* the terraform state pull process of state(): [rc, marker, json]
    state_init,  \* the init process of state(): [rc]
    tfplan       \* <project>/default.tfplan is a file

poolVars == <<pool, job_queue, shutdown, mgr, sd, future, nfut, pstate, pargs, npid, cl, enqOrder>>

procVars == <<returncode, written, wopen, taken, rd, strq, buf, api, waited>>

planVars == <<process, init_process, pl, nplan>>

rpVars == <<rp, rp_results, rp_th, rp_queue, rp_slots, rp_mgr, rp_yield>>

\* What an action of one component leaves alone: the other components.
rnVars == <<rn, pull, state_init, tfplan>>

notPoolVars == <<procVars, planVars, rpVars, rnVars>>
notProcVars == <<poolVars, planVars, rpVars, rnVars>>
notPlanVars == <<poolVars, procVars, rpVars, rnVars>>
notRpVars == <<poolVars, procVars, planVars, rnVars>>
notRnVars == <<poolVars, procVars, planVars, rpVars>>

vars == <<poolVars, procVars, planVars, rpVars, rnVars>>

(***************************************************************************)
(* Pool and FutureNonBlockingProcess                                       *)
(***************************************************************************)
IdleClient ==
    [pc |-> "idle", h |-> 0, op |-> "none", early |-> FALSE, on |-> 0, val |-> "none"]

PoolInit ==
    /\ pool = [i \in Slots |-> 0]
    /\ job_queue = <<>>
    /\ shutdown = FALSE
    /\ mgr = [pc |-> "loop", job |-> 0, i |-> 0]
    /\ sd = [pc |-> "idle", i |-> 0]
    /\ future = [j \in Jobs |-> 0]
    /\ nfut = 0
    /\ pstate = [p \in Pids |-> "none"]
    /\ pargs = [p \in Pids |-> 0]
    /\ npid = 0
    /\ cl = [c \in Clients |-> IdleClient]
    /\ enqOrder = <<>>

\* process.poll(): None while running, the exit status afterwards.
\* (the mutation reports every process as exited)
Poll_Exited(p) == "0"
Poll(p) == IF pstate[p] = "exited" THEN "0" ELSE "None"

\* pool.py:54 -- a slot is usable when empty or when its occupant has exited.
SlotFree_AnySlot(occ) == TRUE
SlotFree(occ) == IF occ = 0 THEN TRUE ELSE Poll(occ) # "None"

\* pool.py:45 -- queue.Queue.get takes the oldest item.
QueueGet_Newest(q) == Len(q)
QueueGet(q) == 1

\* (the mutation leaves the job on the queue)
RemoveAt_Keep(q, k) == q
RemoveAt(q, k) == SubSeq(q, 1, k - 1) \o SubSeq(q, k + 1, Len(q))

\* pool.py:57 -- job[0].set_result(pool[i]): the future is resolved with the
\* occupant just placed in the slot.
SetResult(slots, i) == slots[i]

\* pool.py:26,33 -- self._future.result(): blocks until the future is set.
FutureResult_NoBlock(j) == [ready |-> TRUE, obj |-> future[j]]
FutureResult(j) == [ready |-> future[j] # 0, obj |-> future[j]]

\* Pool.queue, first half (pool.py:80): the future is created.
QueueCreate(c) ==
    /\ cl[c].pc = "idle"
    /\ nfut < MaxJobs
    /\ nfut' = nfut + 1
    /\ cl' = [cl EXCEPT ![c] = [IdleClient EXCEPT !.pc = "created", !.h = nfut + 1]]
    /\ UNCHANGED <<pool, job_queue, shutdown, mgr, sd, future, pstate, pargs,
                   npid, enqOrder>>
    /\ UNCHANGED notPoolVars

\* Pool.queue, second half (pool.py:82-83): the job is put and the future
\* returned to the caller without waiting for a slot.
QueuePut(c) ==
    /\ cl[c].pc = "created"
    /\ job_queue' = Append(job_queue, cl[c].h)
    /\ enqOrder' = Append(enqOrder, cl[c].h)
    /\ cl' = [cl EXCEPT ![c].pc = "queued"]
    /\ UNCHANGED <<pool, shutdown, mgr, sd, future, nfut, pstate,
                   pargs, npid>>
    /\ UNCHANGED notPoolVars

\* __getattr__/__setattr__ entered (pool.py:22-26, 28-33): the caller is now
\* inside self._future.result().
HandleCall(c) ==
    /\ cl[c].pc = "queued"
    /\ \E o \in HandleOps :
          cl' = [cl EXCEPT ![c].pc = "blocked", ![c].op = o,
                           ![c].early = (future[cl[c].h] = 0)]
    /\ UNCHANGED <<pool, job_queue, shutdown, mgr, sd, future, nfut, pstate, pargs, npid, enqOrder>>
    /\ UNCHANGED notPoolVars

\* _future.result() returns and the operation is applied to the object it
\* returned (getattr / setattr on the bound NonBlockingProcess).
HandleForward(c) ==
    /\ cl[c].pc = "blocked"
    /\ LET r == FutureResult(cl[c].h) IN
         /\ r.ready
         /\ CASE cl[c].op = "returncode" ->
                   cl' = [cl EXCEPT ![c].pc = "ret", ![c].on = r.obj,
                                    ![c].val = IF r.obj = 0 THEN "error"
                                               ELSE Poll(r.obj)]
              [] cl[c].op = "setattr" ->
                   cl' = [cl EXCEPT ![c].pc = "ret", ![c].on = r.obj,
                                    ![c].val = IF r.obj = 0 THEN "error"
                                               ELSE "set"]
              [] OTHER ->
                   cl' = [cl EXCEPT ![c].pc = IF r.obj = 0 THEN "ret" ELSE "inwait",
                                    ![c].on = r.obj,
                                    ![c].val = IF r.obj = 0 THEN "error" ELSE "none"]
    /\ UNCHANGED <<pool, job_queue, shutdown, mgr, sd, future, nfut, pstate, pargs, npid, enqOrder>>
    /\ UNCHANGED notPoolVars

\* NonBlockingProcess.wait reached through the handle: returns once the
\* process has exited (process.py:84-85).
HandleWaitReturn(c) ==
    /\ cl[c].pc = "inwait"
    /\ Poll(cl[c].on) # "None"
    /\ cl' = [cl EXCEPT ![c].pc = "ret", ![c].val = "waited"]
    /\ UNCHANGED <<pool, job_queue, shutdown, mgr, sd, future, nfut, pstate, pargs, npid, enqOrder>>
    /\ UNCHANGED notPoolVars

\* The caller is done with this handle.
HandleDrop(c) ==
    /\ cl[c].pc = "ret"
    /\ cl' = [cl EXCEPT ![c] = IdleClient]
    /\ UNCHANGED <<pool, job_queue, shutdown, mgr, sd, future, nfut, pstate, pargs, npid, enqOrder>>
    /\ UNCHANGED notPoolVars

\* pool.py:42 -- while not shutdown.is_set()
MgrLoop ==
    /\ mgr.pc = "loop"
    /\ mgr' = [mgr EXCEPT !.pc = IF shutdown THEN "exited" ELSE "get"]
    /\ UNCHANGED <<pool, job_queue, shutdown, sd, future, nfut, pstate, pargs, npid, cl, enqOrder>>
    /\ UNCHANGED notPoolVars

\* pool.py:45 -- jobs.get(timeout=1) returns a job.
MgrGetJob ==
    /\ mgr.pc = "get"
    /\ job_queue # <<>>
    /\ LET k == QueueGet(job_queue) IN
         /\ mgr' = [pc |-> "scan", job |-> job_queue[k], i |-> 1]
         /\ job_queue' = RemoveAt(job_queue, k)
    /\ UNCHANGED <<pool, shutdown, sd, future, nfut, pstate, pargs,
                   npid, cl, enqOrder>>
    /\ UNCHANGED notPoolVars

\* pool.py:46-48 -- the get timed out on an empty queue: continue.
MgrGetEmpty ==
    /\ mgr.pc = "get"
    /\ job_queue = <<>>
    /\ mgr' = [mgr EXCEPT !.pc = "loop"]
    /\ UNCHANGED <<pool, job_queue, shutdown, sd, future, nfut, pstate, pargs, npid, cl, enqOrder>>
    /\ UNCHANGED notPoolVars

\* pool.py:53-54 -- slot i is occupied by a running process: next slot.
MgrScanBusy ==
    /\ mgr.pc = "scan"
    /\ mgr.i \in Slots
    /\ ~SlotFree(pool[mgr.i])
    /\ mgr' = [mgr EXCEPT !.i = mgr.i + 1]
    /\ UNCHANGED <<pool, job_queue, shutdown, sd, future, nfut, pstate, pargs, npid, cl, enqOrder>>
    /\ UNCHANGED notPoolVars

\* pool.py:54-59 -- slot i is usable: spawn into it and resolve the future.
MgrSchedule ==
    /\ mgr.pc = "scan"
    /\ mgr.i \in Slots
    /\ SlotFree(pool[mgr.i])
    /\ LET p == npid + 1
           slots == [pool EXCEPT ![mgr.i] = p] IN
         /\ npid' = p
         /\ pstate' = [pstate EXCEPT ![p] = "running"]
         /\ pargs' = [pargs EXCEPT ![p] = mgr.job]
         /\ pool' = slots
         /\ future' = [future EXCEPT ![mgr.job] = SetResult(slots, mgr.i)]
    /\ mgr' = [pc |-> "loop", job |-> 0, i |-> 0]
    /\ UNCHANGED <<job_queue, shutdown, sd, nfut, cl, enqOrder>>
    /\ UNCHANGED notPoolVars

\* pool.py:56 -- subprocess.Popen raises inside the constructor: nothing in
\* the manager catches it, the thread ends with the job in hand.
MgrSpawnRaises ==
    /\ mgr.pc = "scan"
    /\ mgr.i \in Slots
    /\ SlotFree(pool[mgr.i])
    /\ mgr' = [mgr EXCEPT !.pc = "crashed"]
    /\ UNCHANGED <<pool, job_queue, shutdown, sd, future, nfut, pstate, pargs, npid, cl, enqOrder>>
    /\ UNCHANGED notPoolVars

\* pool.py:60-61 -- no slot was usable: sleep, then scan again from slot 0.
MgrSleep ==
    /\ mgr.pc = "scan"
    /\ mgr.i = NumWorkers + 1
    /\ mgr' = [mgr EXCEPT !.i = 1]
    /\ UNCHANGED <<pool, job_queue, shutdown, sd, future, nfut, pstate, pargs, npid, cl, enqOrder>>
    /\ UNCHANGED notPoolVars

\* A spawned process runs to completion on its own.
ProcExit(p) ==
    /\ pstate[p] = "running"
    /\ pstate' = [pstate EXCEPT ![p] = "exited"]
    /\ UNCHANGED <<pool, job_queue, shutdown, mgr, sd, future, nfut, pargs, npid, cl, enqOrder>>
    /\ UNCHANGED notPoolVars

\* Pool.shutdown, pool.py:87 -- self._shutdown.set()
ShutdownSet ==
    /\ sd.pc = "idle"
    /\ shutdown' = TRUE
    /\ sd' = [sd EXCEPT !.pc = "join"]
    /\ UNCHANGED <<pool, job_queue, mgr, future, nfut, pstate,
                   pargs, npid, cl, enqOrder>>
    /\ UNCHANGED notPoolVars

\* pool.py:89 -- self._manager.join() returns once the thread has ended.
ShutdownJoin ==
    /\ sd.pc = "join"
    /\ mgr.pc \in {"exited", "crashed"}
    /\ sd' = [pc |-> "wait", i |-> 1]
    /\ UNCHANGED <<pool, job_queue, shutdown, mgr, future, nfut, pstate, pargs, npid, cl, enqOrder>>
    /\ UNCHANGED notPoolVars

\* pool.py:90-95 -- p.wait() on slot i: None.wait() raises and is swallowed,
\* an occupant's wait returns once it has exited.
ShutdownWait ==
    /\ sd.pc = "wait"
    /\ sd.i \in Slots
    /\ IF pool[sd.i] = 0 THEN TRUE ELSE Poll(pool[sd.i]) # "None"
    /\ sd' = [sd EXCEPT !.i = sd.i + 1]
    /\ UNCHANGED <<pool, job_queue, shutdown, mgr, future, nfut, pstate, pargs, npid, cl, enqOrder>>
    /\ UNCHANGED notPoolVars

\* pool.py:96 -- shutdown() returns.
ShutdownDone ==
    /\ sd.pc = "wait"
    /\ sd.i = NumWorkers + 1
    /\ sd' = [pc |-> "done", i |-> 0]
    /\ UNCHANGED <<pool, job_queue, shutdown, mgr, future, nfut, pstate, pargs, npid, cl, enqOrder>>
    /\ UNCHANGED notPoolVars

PoolNext ==
    \/ \E c \in Clients : QueueCreate(c)
    \/ \E c \in Clients : QueuePut(c)
    \/ \E c \in Clients : HandleCall(c)
    \/ \E c \in Clients : HandleForward(c)
    \/ \E c \in Clients : HandleWaitReturn(c)
    \/ \E c \in Clients : HandleDrop(c)
    \/ MgrLoop
    \/ MgrGetJob
    \/ MgrGetEmpty
    \/ MgrScanBusy
    \/ MgrSchedule
    \/ MgrSpawnRaises
    \/ MgrSleep
    \/ \E p \in Pids : ProcExit(p)
    \/ ShutdownSet
    \/ ShutdownJoin
    \/ ShutdownWait
    \/ ShutdownDone


(***************************************************************************)
(* Properties of the pool                                                  *)
(***************************************************************************)
RunningPids == {p \in Pids : pstate[p] = "running"}
Occupants == {pool[i] : i \in Slots} \ {0}
Enqueued == {enqOrder[k] : k \in 1..Len(enqOrder)}
\* The jobs in the order their processes were spawned.
SpawnOrder == [p \in 1..npid |-> pargs[p]]

\* C1: a pool of NumWorkers slots never has more than NumWorkers of its
\* processes running; every running process still occupies its slot (a
\* running occupant is never replaced).
C1_AtMostNRunning ==
    /\ Cardinality(RunningPids) <= NumWorkers
    /\ RunningPids \subseteq Occupants

\* C1 witness: a slot has been reused and every slot holds a running process.
C1_Witness ==
    /\ npid > NumWorkers
    /\ Cardinality(RunningPids) = NumWorkers

\* C2: no job passed to Pool.queue is lost: once the scheduler thread has
\* returned, every job that was put on the queue has been bound to a process.
C2_NoJobLost ==
    mgr.pc = "exited" => \A j \in Enqueued : future[j] # 0

C4_ForwardsToBound ==
    \A c \in Clients :
        cl[c].pc \in {"inwait", "ret"} =>
            /\ future[cl[c].h] # 0
            /\ cl[c].on = future[cl[c].h]
            /\ pargs[cl[c].on] = cl[c].h
            /\ cl[c].val # "error"
            /\ cl[c].val \in {"0", "waited"} => pstate[cl[c].on] = "exited"

\* C4 witness: an operation issued before the handle was bound has returned.
C4_Witness ==
    \E c \in Clients : cl[c].pc = "ret" /\ cl[c].early /\ cl[c].op = "returncode"

(***************************************************************************)
(* NonBlockingProcess                                                      *)
(*                                                                         *)
(* The characters a process writes on a stream are numbered 1, 2, ... in   *)
(* the order written, so the transcript of a stream is <<1, ..., n>>.      *)
(* Every public method holds self._lock (an RLock) for its whole body, so  *)
(* at most one of them is in progress: api is that call.  The reader       *)
(* threads and the process itself run beside it.                           *)
(***************************************************************************)
\* process.py:15
OUTPUT_STREAMS == {"stdout", "stderr"}
Other(s) == IF s = "stdout" THEN "stderr" ELSE "stdout"
ExitCodes == {"0", "1"}
\* process.py:43 -- sentinel = object()
Sentinel == <<-1>>
\* Sizes passed to read(): the default -1 (everything) and one character.
ReadSizes == {-1, 1}

Min(a, b) == IF a < b THEN a ELSE b
Range(lo, hi) == [k \in 1..(hi - lo + 1) |-> lo + k - 1]
Transcript(s) == Range(1, written[s])
PipeLen(s) == written[s] - taken[s]

\* api.pc is "idle" when no public method holds the lock; the other fields
\* then describe the call that returned last.  Of a call: its name, its
\* stream and size (or position) arguments, read()'s last_position,
\* readall()'s last_position (saved), the value returned (res).  pos0, snap,
\* gets and left are history: the cursor and the queue length when the call
\* began, the chunks taken off the queue, the queue length when it returned.
NoCall ==
    [pc |-> "idle", op |-> "none", stream |-> "none", size |-> 0,
     last_position |-> 0, saved |-> 0, res |-> <<>>,
     pos0 |-> 0, snap |-> 0, gets |-> 0, left |-> 0]

ProcInit ==
    /\ returncode = "None"
    /\ written = [s \in OUTPUT_STREAMS |-> 0]
    /\ wopen = [s \in OUTPUT_STREAMS |-> TRUE]
    /\ taken = [s \in OUTPUT_STREAMS |-> 0]
    /\ rd = [s \in OUTPUT_STREAMS |-> [pc |-> "read", size |-> 0]]
    /\ strq = [s \in OUTPUT_STREAMS |-> <<>>]
    /\ buf = [s \in OUTPUT_STREAMS |-> [data |-> <<>>, pos |-> 0]]
    /\ api = NoCall
    /\ waited = FALSE

\* ---- io.StringIO ----
StreamTell(b) == b.pos

\* seek(position): the cursor is set to the position, also past the end.
StreamSeek_Relative(b, p) == [b EXCEPT !.pos = b.pos + p]
StreamSeek(b, p) == [b EXCEPT !.pos = p]

\* seek(0, io.SEEK_END) (the mutation leaves the cursor where it is)
StreamSeekEnd_Stay(b) == b
StreamSeekEnd(b) == [b EXCEPT !.pos = Len(b.data)]

\* write(c) at the cursor: overwrites what is there, extends the data, pads
\* with NUL (0) when the cursor is past the end; the cursor ends after c.
StreamWrite(b, c) ==
    LET n == Len(b.data)
        e == b.pos + Len(c)
        m == IF e > n THEN e ELSE n IN
    [data |-> [k \in 1..m |->
                 IF k > b.pos /\ k <= e THEN c[k - b.pos]
                 ELSE IF k <= n THEN b.data[k] ELSE 0],
     pos |-> e]

\* read(size): up to size characters from the cursor (all when size < 0),
\* nothing at or past the end; the cursor moves by what was returned.
\* (The mutation returns the same characters and leaves the cursor.)
StreamRead_NoAdvance(b, size) ==
    LET n == Len(b.data)
        avail == IF b.pos >= n THEN 0 ELSE n - b.pos
        k == IF size < 0 THEN avail ELSE Min(size, avail) IN
    [out |-> SubSeq(b.data, b.pos + 1, b.pos + k), b |-> b]
StreamRead(b, size) ==
    LET n == Len(b.data)
        avail == IF b.pos >= n THEN 0 ELSE n - b.pos
        k == IF size < 0 THEN avail ELSE Min(size, avail) IN
    [out |-> SubSeq(b.data, b.pos + 1, b.pos + k),
     b |-> [b EXCEPT !.pos = b.pos + k]]

\* ---- the child process ----
\* The process writes one more character on a stream it still holds open.
ChildWrite(s) ==
    /\ returncode = "None"
    /\ wopen[s]
    /\ written["stdout"] + written["stderr"] < MaxWrites
    /\ written' = [written EXCEPT ![s] = written[s] + 1]
    /\ UNCHANGED <<returncode, wopen, taken, rd, strq, buf, api, waited>>
    /\ UNCHANGED notProcVars

\* The process closes a stream while it keeps running.
ChildClose(s) ==
    /\ returncode = "None"
    /\ wopen[s]
    /\ wopen' = [wopen EXCEPT ![s] = FALSE]
    /\ UNCHANGED <<returncode, written, taken, rd, strq, buf, api, waited>>
    /\ UNCHANGED notProcVars

\* The process exits: its write ends are closed, poll() reports the status.
ChildExit ==
    /\ returncode = "None"
    /\ \E c \in ExitCodes : returncode' = c
    /\ wopen' = [s \in OUTPUT_STREAMS |-> FALSE]
    /\ UNCHANGED <<written, taken, rd, strq, buf, api, waited>>
    /\ UNCHANGED notProcVars

\* ---- reader(process, attribute, output), process.py:18-34 ----
\* process.py:26-30 -- the pipe is a blocking raw stream: readinto returns
\* when there is data (at most one buffer of it) or at end of file (0); a
\* non-empty read is decoded and put on the queue.
ReaderRead(s) ==
    /\ rd[s].pc = "read"
    /\ IF PipeLen(s) > 0 THEN TRUE ELSE ~wopen[s]
    /\ LET size == Min(PipeLen(s), ReadBufSize) IN
         /\ taken' = [taken EXCEPT ![s] = taken[s] + size]
         /\ strq' = IF size > 0
                    THEN [strq EXCEPT ![s] =
                            Append(strq[s], Range(taken[s] + 1, taken[s] + size))]
                    ELSE strq
         /\ rd' = [rd EXCEPT ![s] = [pc |-> "check", size |-> size]]
    /\ UNCHANGED <<returncode, written, wopen, buf, api, waited>>
    /\ UNCHANGED notProcVars

\* process.py:30 -- buf[:size].decode("utf-8") raises when the full buffer
\* ends inside a multi-byte character: the exception ends the thread.
ReaderDecodeRaises(s) ==
    /\ rd[s].pc = "read"
    /\ PipeLen(s) > ReadBufSize
    /\ taken' = [taken EXCEPT ![s] = taken[s] + ReadBufSize]
    /\ rd' = [rd EXCEPT ![s] = [pc |-> "died", size |-> ReadBufSize]]
    /\ UNCHANGED <<returncode, written, wopen, strq, buf, api, waited>>
    /\ UNCHANGED notProcVars

\* process.py:32-33 -- if not size and process.poll() is not None: break
ReaderExit(sz, rc) == sz = 0 /\ rc # "None"

ReaderCheck(s) ==
    /\ rd[s].pc = "check"
    /\ rd' = [rd EXCEPT ![s].pc = IF ReaderExit(rd[s].size, returncode)
                                  THEN "done" ELSE "read"]
    /\ UNCHANGED <<returncode, written, wopen, taken, strq, buf, api, waited>>
    /\ UNCHANGED notProcVars

\* ---- public methods ----
\* process.py:43-44 -- _read_queue puts its sentinel behind what is queued.
ReadQueuePut_NoSentinel(q) == q
ReadQueuePut(q) == Append(q, Sentinel)

\* process.py:117-121 -- read() under the lock: remember the cursor, move to
\* the end, start draining the queue.  sz is the size read() was given.
StartRead(op, s, sz, b, saved) ==
    /\ api' = [pc |-> "drain", op |-> op, stream |-> s, size |-> sz,
               last_position |-> StreamTell(b), saved |-> saved, res |-> <<>>,
               pos0 |-> buf[s].pos, snap |-> Len(strq[s]), gets |-> 0,
               left |-> 0]
    /\ buf' = [buf EXCEPT ![s] = StreamSeekEnd(b)]
    /\ strq' = [strq EXCEPT ![s] = ReadQueuePut(strq[s])]

\* process.py:124-125 -- back to the remembered cursor, then stream.read(size).
FinishRead == StreamRead(StreamSeek(buf[api.stream], api.last_position), api.size)

\* process.py:139 -- readall puts the cursor back where it found it.
ReadallRestore_Skip(b, p) == b
ReadallRestore(b, p) == StreamSeek(b, p)

\* seek(position, stream) has taken the lock, process.py:94-99
SeekEnter(s, p) ==
    /\ api.pc = "idle"
    /\ p <= Len(buf[s].data) + 1
    /\ api' = [NoCall EXCEPT !.pc = "seek", !.op = "seek", !.stream = s,
                             !.size = p, !.pos0 = buf[s].pos]
    /\ UNCHANGED <<returncode, written, wopen, taken, rd, strq, buf, waited>>
    /\ UNCHANGED notProcVars

\* process.py:100 -- getattr(self, stream).seek(position), and seek returns.
SeekReturn ==
    /\ api.pc = "seek"
    /\ buf' = [buf EXCEPT ![api.stream] = StreamSeek(buf[api.stream], api.size)]
    /\ api' = [api EXCEPT !.pc = "idle"]
    /\ UNCHANGED <<returncode, written, wopen, taken, rd, strq, waited>>
    /\ UNCHANGED notProcVars

\* ---- calls that name no stream of the process ----
\* A stream name that is not in OUTPUT_STREAMS.
InvalidStreams == {"stdin"}

\* process.py:48-53 (the mutation lets every name through)
CheckStreamValid_Any(stream) == TRUE
CheckStreamValid(stream) == stream \in OUTPUT_STREAMS

\* What a call with an invalid name raises: the ValueError of
\* _check_stream_valid, or, were the name let through, the AttributeError of
\* the getattr that follows it.
StreamError(stream) == IF CheckStreamValid(stream) THEN "AttributeError" ELSE "ValueError"

\* process.py:98, 106: seek and tell take the lock before they check the name.
InvalidLockedEnter(op, s) ==
    /\ api.pc = "idle"
    /\ api' = [NoCall EXCEPT !.pc = "check", !.op = op, !.stream = s]
    /\ UNCHANGED <<returncode, written, wopen, taken, rd, strq, buf, waited>>
    /\ UNCHANGED notProcVars

\* process.py:99, 107: the check raises; leaving the with block releases the
\* lock.
InvalidLockedRaise ==
    /\ api.pc = "check"
    /\ api' = [NoCall EXCEPT !.op = StreamError(api.stream)]
    /\ UNCHANGED <<returncode, written, wopen, taken, rd, strq, buf, waited>>
    /\ UNCHANGED notProcVars

\* process.py:116, 133: read and readall check the name before they take the
\* lock.
InvalidUnlockedRaise(op, s) ==
    /\ api.pc = "idle"
    /\ api' = [NoCall EXCEPT !.op = StreamError(s)]
    /\ UNCHANGED <<returncode, written, wopen, taken, rd, strq, buf, waited>>
    /\ UNCHANGED notProcVars

\* tell(stream), process.py:102-108: the value it returns.
Tell(s) == StreamTell(buf[s])

\* read(size, stream) is entered, process.py:110-121
ReadEnter(s, sz) ==
    /\ api.pc = "idle"
    /\ StartRead("read", s, sz, buf[s], 0)
    /\ UNCHANGED <<returncode, written, wopen, taken, rd, waited>>
    /\ UNCHANGED notProcVars

\* readall(stream) is entered, process.py:127-138: the cursor is saved, set
\* to 0, and read() is called.
ReadallEnter(s) ==
    /\ api.pc = "idle"
    /\ StartRead("readall", s, -1, StreamSeek(buf[s], 0), StreamTell(buf[s]))
    /\ UNCHANGED <<returncode, written, wopen, taken, rd, waited>>
    /\ UNCHANGED notProcVars

\* process.py:45-46, 122-123 -- q.get returns a chunk, written at the cursor.
DrainGet ==
    /\ api.pc = "drain"
    /\ strq[api.stream] # <<>>
    /\ Head(strq[api.stream]) # Sentinel
    /\ buf' = [buf EXCEPT ![api.stream] =
                 StreamWrite(buf[api.stream], Head(strq[api.stream]))]
    /\ strq' = [strq EXCEPT ![api.stream] = Tail(strq[api.stream])]
    /\ api' = [api EXCEPT !.gets = api.gets + 1]
    /\ UNCHANGED <<returncode, written, wopen, taken, rd, waited>>
    /\ UNCHANGED notProcVars

AtSentinel ==
    /\ api.pc = "drain"
    /\ strq[api.stream] # <<>>
    /\ Head(strq[api.stream]) = Sentinel

\* The call returns res to its caller and releases the lock.
Returned(res) ==
    [api EXCEPT !.pc = "idle", !.res = res, !.left = Len(strq[api.stream]) - 1]

\* q.get returns the sentinel and read() returns, process.py:124-125
ReadReturn ==
    /\ AtSentinel
    /\ api.op = "read"
    /\ strq' = [strq EXCEPT ![api.stream] = Tail(strq[api.stream])]
    /\ buf' = [buf EXCEPT ![api.stream] = FinishRead.b]
    /\ api' = Returned(FinishRead.out)
    /\ UNCHANGED <<returncode, written, wopen, taken, rd, waited>>
    /\ UNCHANGED notProcVars

\* the inner read() returns and readall() returns, process.py:138-140
ReadallReturn ==
    /\ AtSentinel
    /\ api.op = "readall"
    /\ strq' = [strq EXCEPT ![api.stream] = Tail(strq[api.stream])]
    /\ buf' = [buf EXCEPT ![api.stream] = ReadallRestore(FinishRead.b, api.saved)]
    /\ api' = Returned(FinishRead.out)
    /\ UNCHANGED <<returncode, written, wopen, taken, rd, waited>>
    /\ UNCHANGED notProcVars

\* wait() is entered, process.py:84-88: the polling loop has seen the exit
\* and the lock is taken.
WaitEnter ==
    /\ api.pc = "idle"
    /\ returncode # "None"
    /\ api' = [NoCall EXCEPT !.pc = "join", !.op = "wait", !.stream = "stdout"]
    /\ UNCHANGED <<returncode, written, wopen, taken, rd, strq, buf, waited>>
    /\ UNCHANGED notProcVars

\* process.py:90-91 -- join(timeout=1) returns because the reader thread has
\* ended; read(stream=stream) follows.
WaitJoined ==
    /\ api.pc = "join"
    /\ rd[api.stream].pc \in {"done", "died"}
    /\ StartRead("wait", api.stream, -1, buf[api.stream], 0)
    /\ UNCHANGED <<returncode, written, wopen, taken, rd, waited>>
    /\ UNCHANGED notProcVars

\* process.py:90-91 -- join(timeout=1) returns on its timeout, the reader
\* thread still alive; read(stream=stream) follows all the same.
WaitJoinTimeout ==
    /\ api.pc = "join"
    /\ rd[api.stream].pc \notin {"done", "died"}
    /\ StartRead("wait", api.stream, -1, buf[api.stream], 0)
    /\ UNCHANGED <<returncode, written, wopen, taken, rd, waited>>
    /\ UNCHANGED notProcVars

\* process.py:91-92 -- wait's read of stdout returns, the stream is rewound,
\* the loop goes on to stderr.
WaitNextStream ==
    /\ AtSentinel
    /\ api.op = "wait"
    /\ api.stream = "stdout"
    /\ strq' = [strq EXCEPT ![api.stream] = Tail(strq[api.stream])]
    /\ buf' = [buf EXCEPT ![api.stream] = StreamSeek(FinishRead.b, 0)]
    /\ api' = [NoCall EXCEPT !.pc = "join", !.op = "wait", !.stream = "stderr"]
    /\ UNCHANGED <<returncode, written, wopen, taken, rd, waited>>
    /\ UNCHANGED notProcVars

\* process.py:91-92 -- wait's read of stderr returns, the stream is rewound,
\* wait() returns.
WaitReturn ==
    /\ AtSentinel
    /\ api.op = "wait"
    /\ api.stream = "stderr"
    /\ strq' = [strq EXCEPT ![api.stream] = Tail(strq[api.stream])]
    /\ buf' = [buf EXCEPT ![api.stream] = StreamSeek(FinishRead.b, 0)]
    /\ api' = [NoCall EXCEPT !.op = "wait"]
    /\ waited' = TRUE
    /\ UNCHANGED <<returncode, written, wopen, taken, rd>>
    /\ UNCHANGED notProcVars

ProcNext ==
    \/ \E s \in OUTPUT_STREAMS : ChildWrite(s)
    \/ \E s \in OUTPUT_STREAMS : ChildClose(s)
    \/ ChildExit
    \/ \E s \in OUTPUT_STREAMS : ReaderRead(s)
    \/ \E s \in OUTPUT_STREAMS : ReaderDecodeRaises(s)
    \/ \E s \in OUTPUT_STREAMS : ReaderCheck(s)
    \/ \E s \in OUTPUT_STREAMS, p \in 0..(MaxWrites + 1) : SeekEnter(s, p)
    \/ SeekReturn
    \/ \E op \in {"seek", "tell"}, s \in InvalidStreams : InvalidLockedEnter(op, s)
    \/ InvalidLockedRaise
    \/ \E op \in {"read", "readall"}, s \in InvalidStreams : InvalidUnlockedRaise(op, s)
    \/ \E s \in OUTPUT_STREAMS, sz \in ReadSizes : ReadEnter(s, sz)
    \/ \E s \in OUTPUT_STREAMS : ReadallEnter(s)
    \/ DrainGet
    \/ ReadReturn
    \/ ReadallReturn
    \/ WaitEnter
    \/ WaitJoined
    \/ WaitJoinTimeout
    \/ WaitNextStream
    \/ WaitReturn

(***************************************************************************)
(* Runner.plan                                                             *)
(*                                                                         *)
(* A stream's text is the sequence of the marker substrings it holds, in   *)
(* the order they appeared; each appears once.  readall returns what the   *)
(* reader threads have delivered so far, so text can still appear after    *)
(* the process's exit code is visible.                                     *)
(***************************************************************************)
\* stdout: "B" = "Backend reinitialization required",
\*         "R" = "Refreshing Terraform state in-memory prior to plan...",
\*         "nl" = a newline.
StdoutTokens == {"B", "R", "nl"}
\* stderr: "I" = text matching "terraform\s*init" (in double quotes), "nl" = a newline.
StderrTokens == {"I", "nl"}
StreamTokens(s) == IF s = "stdout" THEN StdoutTokens ELSE StderrTokens

\* status: the exit codes of terraform plan -detailed-exitcode.
PlanExitCodes == {"0", "1", "2"}
InitExitCodes == {"0", "1"}

\* `marker in text`
Contains(text, tok) == \E k \in 1..Len(text) : text[k] = tok

NoProcess == [out |-> <<>>, err |-> <<>>, rc |-> "None"]
NoInit == [spawned |-> FALSE, rc |-> "None"]
NoPlan == [pc |-> "idle", probe |-> 0, out |-> <<>>, err |-> <<>>,
           ret |-> "none", inits |-> 0, attempt |-> 0]

PlanInit ==
    /\ process = NoProcess
    /\ init_process = NoInit
    /\ pl = NoPlan
    /\ nplan = 0

\* runner.py:85-87
InitRequired(out, err) == Contains(out, "B") \/ Contains(err, "I")

\* runner.py:98 (the mutation never recognises the marker)
PlanStarted_Never(out) == FALSE
PlanStarted(out) == Contains(out, "R")

\* runner.py:102
NoFirstLine(out, err) == ~Contains(out, "nl") /\ ~Contains(err, "nl")

\* runner.py:106 (the mutation never sees an error exit)
ErrorExit_Never(rc) == FALSE
ErrorExit(rc) == rc # "None" /\ rc \notin {"0", "2"}

\* runner.py:91 (the mutation takes every init for a success)
InitFailedTest_Never(rc) == FALSE
InitFailedTest(rc) == rc # "0"

\* ---- the spawned processes ----
\* The plan process's output reaches the stream (written, read by the reader
\* thread, queued).
PlanEmit(s, tok) ==
    /\ nplan > 0
    /\ LET f == IF s = "stdout" THEN "out" ELSE "err" IN
        /\ ~Contains(process[f], tok)
        /\ process' = [process EXCEPT ![f] = Append(@, tok)]
    /\ UNCHANGED <<init_process, pl, nplan>>
    /\ UNCHANGED notPlanVars

PlanExit(rc) ==
    /\ nplan > 0
    /\ process.rc = "None"
    /\ process' = [process EXCEPT !.rc = rc]
    /\ UNCHANGED <<init_process, pl, nplan>>
    /\ UNCHANGED notPlanVars

InitExit(rc) ==
    /\ init_process.spawned
    /\ init_process.rc = "None"
    /\ init_process' = [init_process EXCEPT !.rc = rc]
    /\ UNCHANGED <<process, pl, nplan>>
    /\ UNCHANGED notPlanVars

\* ---- plan() ----
\* A caller invokes plan().
Plan ==
    /\ pl.pc = "idle"
    /\ pl' = [pl EXCEPT !.pc = "spawn"]
    /\ UNCHANGED <<process, init_process, nplan>>
    /\ UNCHANGED notPlanVars

\* runner.py:78-80: the frame's plan process starts; the loop is at its first
\* iteration.
PlanSpawn ==
    /\ pl.pc = "spawn"
    /\ nplan < MaxAttempts
    /\ nplan' = nplan + 1
    /\ process' = NoProcess
    /\ init_process' = NoInit
    /\ pl' = [NoPlan EXCEPT !.pc = "readout", !.attempt = nplan + 1]
    /\ UNCHANGED notPlanVars

\* runner.py:78-80: the spawn strategy raises (the command cannot be launched).
PlanSpawnRaises ==
    /\ pl.pc = "spawn"
    /\ nplan < MaxAttempts
    /\ pl' = [pl EXCEPT !.pc = "raised"]
    /\ UNCHANGED <<process, init_process, nplan>>
    /\ UNCHANGED notPlanVars

\* runner.py:81: range(...) has no iteration left after n of them (the
\* mutation never ends the loop).
RangeExhausted_Never(n) == FALSE
RangeExhausted(n) == n >= ProbeCap

\* runner.py:81, 109: range(120) is used up; the handle is returned as it is.
LoopExhausted ==
    /\ pl.pc = "readout"
    /\ RangeExhausted(pl.probe)
    /\ pl' = [pl EXCEPT !.pc = "returned", !.ret = "plan"]
    /\ UNCHANGED <<process, init_process, nplan>>
    /\ UNCHANGED notPlanVars

\* runner.py:83
ProbeReadOut ==
    /\ pl.pc = "readout"
    /\ ~RangeExhausted(pl.probe)
    /\ pl' = [pl EXCEPT !.pc = "readerr", !.out = process.out]
    /\ UNCHANGED <<process, init_process, nplan>>
    /\ UNCHANGED notPlanVars

\* runner.py:84
ProbeReadErr ==
    /\ pl.pc = "readerr"
    /\ pl' = [pl EXCEPT !.pc = "classify", !.err = process.err]
    /\ UNCHANGED <<process, init_process, nplan>>
    /\ UNCHANGED notPlanVars

\* runner.py:85-88
NeedsInit ==
    /\ pl.pc = "classify"
    /\ InitRequired(pl.out, pl.err)
    /\ pl' = [pl EXCEPT !.pc = "wait"]
    /\ UNCHANGED <<process, init_process, nplan>>
    /\ UNCHANGED notPlanVars

\* runner.py:98-100, 109
Started ==
    /\ pl.pc = "classify"
    /\ ~InitRequired(pl.out, pl.err)
    /\ PlanStarted(pl.out)
    /\ pl' = [pl EXCEPT !.pc = "returned", !.ret = "plan"]
    /\ UNCHANGED <<process, init_process, nplan>>
    /\ UNCHANGED notPlanVars

\* runner.py:102-105
WaitFirstLine ==
    /\ pl.pc = "classify"
    /\ ~InitRequired(pl.out, pl.err)
    /\ ~PlanStarted(pl.out)
    /\ NoFirstLine(pl.out, pl.err)
    /\ pl' = [pl EXCEPT !.pc = "readout", !.probe = @ + 1]
    /\ UNCHANGED <<process, init_process, nplan>>
    /\ UNCHANGED notPlanVars

\* runner.py:106-107, 109
ReturncodeBreak ==
    /\ pl.pc = "classify"
    /\ ~InitRequired(pl.out, pl.err)
    /\ ~PlanStarted(pl.out)
    /\ ~NoFirstLine(pl.out, pl.err)
    /\ ErrorExit(process.rc)
    /\ pl' = [pl EXCEPT !.pc = "returned", !.ret = "plan"]
    /\ UNCHANGED <<process, init_process, nplan>>
    /\ UNCHANGED notPlanVars

\* runner.py:106, 81: the next iteration, at once.
ReturncodeContinue ==
    /\ pl.pc = "classify"
    /\ ~InitRequired(pl.out, pl.err)
    /\ ~PlanStarted(pl.out)
    /\ ~NoFirstLine(pl.out, pl.err)
    /\ ~ErrorExit(process.rc)
    /\ pl' = [pl EXCEPT !.pc = "readout", !.probe = @ + 1]
    /\ UNCHANGED <<process, init_process, nplan>>
    /\ UNCHANGED notPlanVars

\* process.py:84-85: wait() leaves its polling loop when poll() is not None
\* (the mutation returns at once).
WaitOver_AtOnce(rc) == TRUE
WaitOver(rc) == rc # "None"

\* runner.py:89: process.wait() returns once the process has exited.
PlanWait ==
    /\ pl.pc = "wait"
    /\ WaitOver(process.rc)
    /\ pl' = [pl EXCEPT !.pc = "init"]
    /\ UNCHANGED <<process, init_process, nplan>>
    /\ UNCHANGED notPlanVars

\* runner.py:90: init() spawns terraform init.
InitCall ==
    /\ pl.pc = "init"
    /\ init_process' = [spawned |-> TRUE, rc |-> "None"]
    /\ pl' = [pl EXCEPT !.pc = "initresult", !.inits = @ + 1]
    /\ UNCHANGED <<process, nplan>>
    /\ UNCHANGED notPlanVars

\* runner.py:90: init() is invoked and its spawn raises.
InitRaises ==
    /\ pl.pc = "init"
    /\ pl' = [pl EXCEPT !.pc = "raised", !.inits = @ + 1]
    /\ UNCHANGED <<process, init_process, nplan>>
    /\ UNCHANGED notPlanVars

\* runner.py:91-93: init_process.result waits for init; a non-zero code
\* returns the init handle.
InitFailed ==
    /\ pl.pc = "initresult"
    /\ init_process.rc # "None"
    /\ InitFailedTest(init_process.rc)
    /\ pl' = [pl EXCEPT !.pc = "returned", !.ret = "init"]
    /\ UNCHANGED <<process, init_process, nplan>>
    /\ UNCHANGED notPlanVars

\* runner.py:91, 97: return self.plan().  The outer frame's locals stay as
\* they are until the inner call spawns.
InitSucceeded ==
    /\ pl.pc = "initresult"
    /\ init_process.rc # "None"
    /\ ~InitFailedTest(init_process.rc)
    /\ pl' = [pl EXCEPT !.pc = "spawn"]
    /\ UNCHANGED <<process, init_process, nplan>>
    /\ UNCHANGED notPlanVars

PlanNext ==
    \/ \E s \in OUTPUT_STREAMS : \E tok \in StreamTokens(s) : PlanEmit(s, tok)
    \/ \E rc \in PlanExitCodes : PlanExit(rc)
    \/ \E rc \in InitExitCodes : InitExit(rc)
    \/ Plan
    \/ PlanSpawn
    \/ PlanSpawnRaises
    \/ LoopExhausted
    \/ ProbeReadOut
    \/ ProbeReadErr
    \/ NeedsInit
    \/ Started
    \/ WaitFirstLine
    \/ ReturncodeBreak
    \/ ReturncodeContinue
    \/ PlanWait
    \/ InitCall
    \/ InitRaises
    \/ InitFailed
    \/ InitSucceeded

(***************************************************************************)
(* RunnerPool                                                              *)
(*                                                                         *)
(* One RunnerPool and one call of init(), plan() or apply() on it.  Each   *)
(* project of the list gets a Runner whose spawn strategy is the shared    *)
(* Pool's queue; the Runner calls run on the threads of the                *)
(* ThreadPoolExecutor (32 of them, more than there are projects).  A       *)
(* Runner call has at most one process that has not exited: plan() waits   *)
(* for its plan process before it calls init(), and for init before it     *)
(* plans again.  A handle is named <<call, job>>: the job-th job that the  *)
(* Runner call of list position `call` queued.                             *)
(***************************************************************************)
Operations == {"init", "plan", "apply"}

\* The projects, and the lists a RunnerPool is given: up to renaming, one to
\* three projects in order, or one project listed twice.
Projects == {"p1", "p2", "p3"}
ProjectLists ==
    { <<"p1">>, <<"p1", "p2">>, <<"p1", "p2", "p3">>, <<"p1", "p1">> }

\* A Runner call is named by its project's position in the list.
Calls == 1..Cardinality(Projects)

NoCallYet == [pc |-> "new", proc |-> "none", njob |-> 0, ret |-> 0]

RPInit ==
    /\ rp = [pc |-> "new", projects |-> <<>>, operation |-> "none", i |-> 0, idx |-> 0]
    /\ rp_results = [keys |-> <<>>, fut |-> [q \in Projects |-> 0]]
    /\ rp_th = [k \in Calls |-> NoCallYet]
    /\ rp_queue = <<>>
    /\ rp_slots = <<>>
    /\ rp_mgr = [pc |-> "get"]
    /\ rp_yield = <<>>

\* runner.py:136-148: RunnerPool(projects, max_concurrency=w) creates the
\* Pool of w slots, whose manager thread starts.
RunnerPoolCreate(projects, w) ==
    /\ rp.pc = "new"
    /\ rp' = [rp EXCEPT !.pc = "constructed", !.projects = projects]
    /\ rp_slots' = [j \in 1..w |-> <<>>]
    /\ UNCHANGED <<rp_results, rp_th, rp_queue, rp_mgr, rp_yield>>
    /\ UNCHANGED notRpVars

\* runner.py:175-182, 155-158: init(), plan() or apply() is called and its
\* generator is started.
RunWrapper(operation) ==
    /\ rp.pc = "constructed"
    /\ rp' = [rp EXCEPT !.pc = "submit", !.operation = operation, !.i = 1]
    /\ UNCHANGED <<rp_results, rp_th, rp_queue, rp_slots, rp_mgr, rp_yield>>
    /\ UNCHANGED notRpVars

\* `key in d`
HasKey(keys, key) == \E a \in 1..Len(keys) : keys[a] = key

\* OrderedDict.__setitem__: a new key goes last, a known key keeps its place.
DictSet(d, key, val) ==
    [keys |-> IF HasKey(d.keys, key) THEN d.keys ELSE Append(d.keys, key),
     fut |-> [d.fut EXCEPT ![key] = val]]

\* runner.py:159-166: self._results[project] = pool.submit(...)
GenSubmit ==
    /\ rp.pc = "submit"
    /\ rp.i <= Len(rp.projects)
    /\ rp_results' = DictSet(rp_results, rp.projects[rp.i], rp.i)
    /\ rp_th' = [rp_th EXCEPT ![rp.i].pc = "submitted"]
    /\ rp' = [rp EXCEPT !.i = @ + 1]
    /\ UNCHANGED <<rp_queue, rp_slots, rp_mgr, rp_yield>>
    /\ UNCHANGED notRpVars

\* runner.py:168: pool.shutdown(wait=False); the submitted calls still run.
GenExecutorShutdown ==
    /\ rp.pc = "submit"
    /\ rp.i > Len(rp.projects)
    /\ rp' = [rp EXCEPT !.pc = "collect", !.idx = 1]
    /\ UNCHANGED <<rp_results, rp_th, rp_queue, rp_slots, rp_mgr, rp_yield>>
    /\ UNCHANGED notRpVars

\* runner.py:170: for project in self._results (the mutation walks the
\* dictionary backwards)
NextKey_Reversed(keys, idx) == keys[Len(keys) + 1 - idx]
NextKey(keys, idx) == keys[idx]

\* runner.py:172-173: the Runner call of the project has returned its handle.
GenYield ==
    /\ rp.pc = "collect"
    /\ rp.idx <= Len(rp_results.keys)
    /\ LET project == NextKey(rp_results.keys, rp.idx)
           k == rp_results.fut[project] IN
        /\ rp_th[k].pc = "returned"
        /\ rp_yield' = Append(rp_yield,
                              [project |-> project, call |-> k, job |-> rp_th[k].ret])
    /\ rp' = [rp EXCEPT !.idx = @ + 1]
    /\ UNCHANGED <<rp_results, rp_th, rp_queue, rp_slots, rp_mgr>>
    /\ UNCHANGED notRpVars

\* runner.py:172: result() re-raises what the Runner call raised; the
\* generator ends there.
GenRaise ==
    /\ rp.pc = "collect"
    /\ rp.idx <= Len(rp_results.keys)
    /\ LET project == NextKey(rp_results.keys, rp.idx)
           k == rp_results.fut[project] IN
        rp_th[k].pc = "raised"
    /\ rp' = [rp EXCEPT !.pc = "raised"]
    /\ UNCHANGED <<rp_results, rp_th, rp_queue, rp_slots, rp_mgr, rp_yield>>
    /\ UNCHANGED notRpVars

\* runner.py:170: the dictionary is used up.
GenDone ==
    /\ rp.pc = "collect"
    /\ rp.idx > Len(rp_results.keys)
    /\ rp' = [rp EXCEPT !.pc = "done"]
    /\ UNCHANGED <<rp_results, rp_th, rp_queue, rp_slots, rp_mgr, rp_yield>>
    /\ UNCHANGED notRpVars

\* ---- the Runner calls ----
\* The call's process has exited (process.wait() / result return).
CallProcessExited(k) == rp_th[k].proc = "exited"

\* The call is about to spawn through _run_wrapper.
AboutToSpawn(k) ==
    IF rp_th[k].pc = "submitted" THEN TRUE
    ELSE rp_th[k].pc \in {"probe", "initresult"} /\ CallProcessExited(k)

\* runner.py:63, 113: the credential helper raises, or apply() finds no
\* default.tfplan; nothing is queued.
RunWrapperRaises(k) ==
    /\ AboutToSpawn(k)
    /\ rp_th' = [rp_th EXCEPT ![k].pc = "raised"]
    /\ UNCHANGED <<rp, rp_results, rp_queue, rp_slots, rp_mgr, rp_yield>>
    /\ UNCHANGED notRpVars

\* runner.py:52, pool.py:79-83: the first spawn of the call is queued.
\* init() and apply() return the deferred handle at once; plan() probes it.
RunQueue(k) ==
    /\ rp_th[k].pc = "submitted"
    /\ rp_queue' = Append(rp_queue, k)
    /\ rp_th' = [rp_th EXCEPT ![k] =
                    [pc |-> IF rp.operation = "plan" THEN "probe" ELSE "returned",
                     proc |-> "queued", njob |-> 1,
                     ret |-> IF rp.operation = "plan" THEN 0 ELSE 1]]
    /\ UNCHANGED <<rp, rp_results, rp_slots, rp_mgr, rp_yield>>
    /\ UNCHANGED notRpVars

\* runner.py:83, 109: readall on the deferred handle returns once the handle
\* is bound; the probe loop ends and plan() returns the plan handle.
RunPlanReturn(k) ==
    /\ rp_th[k].pc = "probe"
    /\ rp_th[k].proc \in {"running", "exited"}
    /\ rp_th' = [rp_th EXCEPT ![k].pc = "returned", ![k].ret = rp_th[k].njob]
    /\ UNCHANGED <<rp, rp_results, rp_queue, rp_slots, rp_mgr, rp_yield>>
    /\ UNCHANGED notRpVars

\* runner.py:85-90: the probe reads an init marker, waits for the plan
\* process and queues terraform init.
RunNeedsInit(k) ==
    /\ rp_th[k].pc = "probe"
    /\ CallProcessExited(k)
    /\ rp_th[k].njob < MaxCallJobs
    /\ rp_queue' = Append(rp_queue, k)
    /\ rp_th' = [rp_th EXCEPT ![k].pc = "initresult", ![k].proc = "queued",
                              ![k].njob = @ + 1]
    /\ UNCHANGED <<rp, rp_results, rp_slots, rp_mgr, rp_yield>>
    /\ UNCHANGED notRpVars

\* runner.py:91-93: init exited non-zero; its handle is returned.
RunInitFailed(k) ==
    /\ rp_th[k].pc = "initresult"
    /\ CallProcessExited(k)
    /\ rp_th' = [rp_th EXCEPT ![k].pc = "returned", ![k].ret = rp_th[k].njob]
    /\ UNCHANGED <<rp, rp_results, rp_queue, rp_slots, rp_mgr, rp_yield>>
    /\ UNCHANGED notRpVars

\* runner.py:91, 97, 78: init exited 0; plan() is re-issued and queues a new
\* plan.
RunInitSucceeded(k) ==
    /\ rp_th[k].pc = "initresult"
    /\ CallProcessExited(k)
    /\ rp_th[k].njob < MaxCallJobs
    /\ rp_queue' = Append(rp_queue, k)
    /\ rp_th' = [rp_th EXCEPT ![k].pc = "probe", ![k].proc = "queued",
                              ![k].njob = @ + 1]
    /\ UNCHANGED <<rp, rp_results, rp_slots, rp_mgr, rp_yield>>
    /\ UNCHANGED notRpVars

\* The call's running process exits.
RunProcessExit(k) ==
    /\ rp_th[k].proc = "running"
    /\ rp_th' = [rp_th EXCEPT ![k].proc = "exited"]
    /\ UNCHANGED <<rp, rp_results, rp_queue, rp_slots, rp_mgr, rp_yield>>
    /\ UNCHANGED notRpVars

\* ---- the shared Pool's manager thread ----
\* The process <<call, job>> is running.
OccupantRunning(occ) ==
    rp_th[occ[1]].proc = "running" /\ rp_th[occ[1]].njob = occ[2]

\* pool.py:54 (the mutation takes every slot)
SlotAvailable_Always(occ) == TRUE
SlotAvailable(occ) == IF occ = <<>> THEN TRUE ELSE ~OccupantRunning(occ)

\* pool.py:53-54: the scan takes the first slot that is free.
FirstAvailable(slots) ==
    IF \E j \in DOMAIN slots : SlotAvailable(slots[j])
       THEN CHOOSE j \in DOMAIN slots :
               /\ SlotAvailable(slots[j])
               /\ \A h \in 1..(j - 1) : ~SlotAvailable(slots[h])
       ELSE 0

\* pool.py:45-59: the manager takes the oldest job and retries its scan until
\* a slot is free; the job is spawned there and its handle bound.  (Nothing
\* else reads the queue, so taking the job and placing it are one step.)
RunMgrSchedule ==
    /\ rp_mgr.pc = "get"
    /\ rp_queue # <<>>
    /\ FirstAvailable(rp_slots) # 0
    /\ LET k == Head(rp_queue) IN
        /\ rp_slots' = [rp_slots EXCEPT ![FirstAvailable(rp_slots)] = <<k, rp_th[k].njob>>]
        /\ rp_th' = [rp_th EXCEPT ![k].proc = "running"]
    /\ rp_queue' = Tail(rp_queue)
    /\ UNCHANGED <<rp, rp_results, rp_mgr, rp_yield>>
    /\ UNCHANGED notRpVars

\* pool.py:56: Popen raises in the manager thread, which ends with the job.
RunMgrSpawnRaises ==
    /\ rp_mgr.pc = "get"
    /\ rp_queue # <<>>
    /\ FirstAvailable(rp_slots) # 0
    /\ rp_queue' = Tail(rp_queue)
    /\ rp_mgr' = [rp_mgr EXCEPT !.pc = "crashed"]
    /\ UNCHANGED <<rp, rp_results, rp_th, rp_slots, rp_yield>>
    /\ UNCHANGED notRpVars

RPNext ==
    \/ \E projects \in ProjectLists, w \in 1..MaxConcurrency :
          RunnerPoolCreate(projects, w)
    \/ \E operation \in Operations : RunWrapper(operation)
    \/ GenSubmit
    \/ GenExecutorShutdown
    \/ GenYield
    \/ GenRaise
    \/ GenDone
    \/ \E k \in Calls : RunWrapperRaises(k)
    \/ \E k \in Calls : RunQueue(k)
    \/ \E k \in Calls : RunPlanReturn(k)
    \/ \E k \in Calls : RunNeedsInit(k)
    \/ \E k \in Calls : RunInitFailed(k)
    \/ \E k \in Calls : RunInitSucceeded(k)
    \/ \E k \in Calls : RunProcessExit(k)
    \/ RunMgrSchedule
    \/ RunMgrSpawnRaises

(***************************************************************************)
(* Runner.init, Runner.apply, Runner.state                                 *)
(*                                                                         *)
(* One Runner, called again and again from one thread.  The counts in rn   *)
(* are those of the call in progress (or of the last one).                 *)
(***************************************************************************)
RunnerOps == {"init", "apply", "state"}

\* runner.py:118 -- for _ in range(2)
StateTries == 2

NoOp == [pc |-> "idle", op |-> "none", cmd |-> "none", tries |-> 0,
         wrappers |-> 0, invoked |-> 0, pulls |-> 0, inits |-> 0, okinits |-> 0,
         had_plan |-> FALSE, why |-> "none"]

NoPull == [rc |-> "None", marker |-> FALSE, json |-> FALSE]

RunnerInit ==
    /\ rn = NoOp
    /\ pull = NoPull
    /\ state_init = [rc |-> "None"]
    /\ tfplan = FALSE

\* ---- the project directory and the processes ----
\* A plan run saves default.tfplan, or the file is removed.
TfplanChange ==
    /\ tfplan' = ~tfplan
    /\ UNCHANGED <<rn, pull, state_init>>
    /\ UNCHANGED notRnVars

\* The state pull process exits: its code, whether its stderr holds
\* "Initialization required", whether its stdout is JSON.
PullExit(rc, marker, json) ==
    /\ rn.pc = "wait"
    /\ pull.rc = "None"
    /\ pull' = [rc |-> rc, marker |-> marker, json |-> json]
    /\ UNCHANGED <<rn, state_init, tfplan>>
    /\ UNCHANGED notRnVars

StateInitExit(rc) ==
    /\ rn.pc = "initresult"
    /\ state_init.rc = "None"
    /\ state_init' = [rc |-> rc]
    /\ UNCHANGED <<rn, pull, tfplan>>
    /\ UNCHANGED notRnVars

\* ---- the operations ----
\* runner.py:69, 112, 117: init(), apply() or state() is called.
RunnerCall(op) ==
    /\ rn.pc \in {"idle", "returned", "raised"}
    /\ rn' = [NoOp EXCEPT !.op = op,
                          !.pc = CASE op = "init" -> "wrap"
                                   [] op = "apply" -> "assert"
                                   [] op = "state" -> "loop",
                          !.cmd = IF op = "init" THEN "init" ELSE "none"]
    /\ pull' = NoPull
    /\ state_init' = [rc |-> "None"]
    /\ UNCHANGED tfplan
    /\ UNCHANGED notRnVars

\* runner.py:113 (the mutation is the assert compiled away)
AssertHolds_Stripped(is_file) == TRUE
AssertHolds(is_file) == is_file

\* runner.py:113-114
ApplyAssert ==
    /\ rn.pc = "assert"
    /\ rn' = IF AssertHolds(tfplan)
                THEN [rn EXCEPT !.pc = "wrap", !.cmd = "apply", !.had_plan = tfplan]
                ELSE [rn EXCEPT !.pc = "raised", !.why = "AssertionError",
                                !.had_plan = tfplan]
    /\ UNCHANGED <<pull, state_init, tfplan>>
    /\ UNCHANGED notRnVars

\* runner.py:52-65: the arguments of self._exec_method(...), the credential
\* helper's env among them, are evaluated before it is invoked.
InvokedAfterCred(invoked, cred_ok) == IF cred_ok THEN invoked + 1 ELSE invoked

\* runner.py:63: the credential helper raises.
WrapperCredFails ==
    /\ rn.pc = "wrap"
    /\ rn' = [rn EXCEPT !.pc = "raised", !.why = "CredentialError",
                        !.wrappers = @ + 1,
                        !.invoked = InvokedAfterCred(@, FALSE)]
    /\ UNCHANGED <<pull, state_init, tfplan>>
    /\ UNCHANGED notRnVars

\* runner.py:52: the spawn strategy is invoked and raises.
WrapperSpawnRaises ==
    /\ rn.pc = "wrap"
    /\ rn' = [rn EXCEPT !.pc = "raised", !.why = "SpawnError",
                        !.wrappers = @ + 1,
                        !.invoked = InvokedAfterCred(@, TRUE)]
    /\ UNCHANGED <<pull, state_init, tfplan>>
    /\ UNCHANGED notRnVars

\* runner.py:52-67: the spawn strategy returns the process.  init() and
\* apply() return it (71, 114); state() goes on to wait for it (120, 126).
WrapperSpawn ==
    /\ rn.pc = "wrap"
    /\ LET r == [rn EXCEPT !.wrappers = @ + 1,
                           !.invoked = InvokedAfterCred(@, TRUE)] IN
        CASE rn.cmd \in {"init", "apply"} ->
                /\ rn' = [r EXCEPT !.pc = "returned"]
                /\ UNCHANGED <<pull, state_init>>
          [] rn.cmd = "pull" ->
                /\ rn' = [r EXCEPT !.pc = "wait", !.pulls = @ + 1]
                /\ pull' = NoPull
                /\ UNCHANGED state_init
          [] rn.cmd = "stateinit" ->
                /\ rn' = [r EXCEPT !.pc = "initresult", !.inits = @ + 1]
                /\ state_init' = [rc |-> "None"]
                /\ UNCHANGED pull
    /\ UNCHANGED tfplan
    /\ UNCHANGED notRnVars

\* runner.py:118 (the mutation never ends the loop)
LoopContinues_Always(tries) == TRUE
LoopContinues(tries) == tries < StateTries

\* runner.py:118-119, 132: the next iteration spawns a pull; after the last
\* one the stdout of `process` is parsed.
StateLoop ==
    /\ rn.pc = "loop"
    /\ rn' = IF LoopContinues(rn.tries)
                THEN [rn EXCEPT !.pc = "wrap", !.cmd = "pull", !.tries = @ + 1]
                ELSE [rn EXCEPT !.pc = "parse"]
    /\ UNCHANGED <<pull, state_init, tfplan>>
    /\ UNCHANGED notRnVars

\* runner.py:121-124
InitializationRequired(p) == p.rc = "1" /\ p.marker

\* runner.py:120-131: wait() returns; init is needed, or the loop breaks.
StateWait ==
    /\ rn.pc = "wait"
    /\ pull.rc # "None"
    /\ rn' = IF InitializationRequired(pull)
                THEN [rn EXCEPT !.pc = "wrap", !.cmd = "stateinit"]
                ELSE [rn EXCEPT !.pc = "parse"]
    /\ UNCHANGED <<pull, state_init, tfplan>>
    /\ UNCHANGED notRnVars

\* runner.py:126-129: init_process.result waits for init; a non-zero code
\* raises RuntimeError, zero goes round the loop.
StateInitResult ==
    /\ rn.pc = "initresult"
    /\ state_init.rc # "None"
    /\ rn' = IF state_init.rc # "0"
                THEN [rn EXCEPT !.pc = "raised", !.why = "RuntimeError"]
                ELSE [rn EXCEPT !.pc = "loop", !.okinits = @ + 1]
    /\ UNCHANGED <<pull, state_init, tfplan>>
    /\ UNCHANGED notRnVars

\* runner.py:132: json.loads(process.readall("stdout"))
StateParse ==
    /\ rn.pc = "parse"
    /\ rn' = IF pull.json
                THEN [rn EXCEPT !.pc = "returned"]
                ELSE [rn EXCEPT !.pc = "raised", !.why = "JSONDecodeError"]
    /\ UNCHANGED <<pull, state_init, tfplan>>
    /\ UNCHANGED notRnVars

RunnerNext ==
    \/ TfplanChange
    \/ \E rc \in {"0", "1"}, marker \in BOOLEAN, json \in BOOLEAN : PullExit(rc, marker, json)
    \/ \E rc \in {"0", "1"} : StateInitExit(rc)
    \/ \E op \in RunnerOps : RunnerCall(op)
    \/ ApplyAssert
    \/ WrapperCredFails
    \/ WrapperSpawnRaises
    \/ WrapperSpawn
    \/ StateLoop
    \/ StateWait
    \/ StateInitResult
    \/ StateParse

(***************************************************************************)
(* Specifications                                                          *)
(***************************************************************************)
Init == PoolInit /\ ProcInit /\ PlanInit /\ RPInit /\ RunnerInit

\* The pool, its manager thread, its clients and Pool.shutdown.
SpecPool == Init /\ [][PoolNext]_vars

\* One NonBlockingProcess with its two reader threads and its callers.
SpecProc == Init /\ [][ProcNext]_vars

\* One call of Runner.plan with the processes it spawns.
SpecPlan == Init /\ [][PlanNext]_vars

\* One Runner and its init(), apply() and state() calls, one after another.
SpecRunner == Init /\ [][RunnerNext]_vars

\* One RunnerPool operation: its generator, its Runner calls, the shared Pool.
SpecRunnerPool == Init /\ [][RPNext]_vars

(***************************************************************************)
(* Properties of NonBlockingProcess                                        *)
(***************************************************************************)
\* The call that returned last (no other public method has begun since).
JustReturned(op) == api.pc = "idle" /\ api.op = op

\* C5: once a wait() has returned, returncode is not None and a readall()
\* returns the complete transcript of its stream.
C5_WaitThenReadallComplete ==
    waited =>
        /\ returncode # "None"
        /\ JustReturned("readall") => api.res = Transcript(api.stream)

\* C6: readall(stream) returns the whole log of the stream, the chunks merged
\* during the call included, and the cursor is where it was before the call.
C6_ReadallKeepsCursor ==
    JustReturned("readall") =>
        /\ Tell(api.stream) = api.pos0
        /\ api.res = buf[api.stream].data

\* C6 witness: a readall that began with the cursor inside the log and merged
\* a chunk has returned two characters.
C6_Witness ==
    /\ JustReturned("readall")
    /\ api.pos0 = 1
    /\ api.gets >= 1
    /\ Len(api.res) = 2

\* C7: seek(p, stream) with 0 <= p <= the buffered length makes tell(stream)
\* return p and changes neither the log nor the other stream's buffer.
C7_SeekThenTell ==
    [][(/\ api.pc = "seek"
        /\ api'.pc = "idle"
        /\ api.size <= Len(buf[api.stream].data))
       => (/\ StreamTell(buf'[api.stream]) = api.size
           /\ buf'[api.stream].data = buf[api.stream].data
           /\ buf'[Other(api.stream)] = buf[Other(api.stream)])]_vars

\* C7 witness: a seek to a position inside the log, away from where the
\* cursor was, has returned; the other stream's cursor is not at 0.
C7_Witness ==
    /\ JustReturned("seek")
    /\ api.size >= 1
    /\ api.size < Len(buf[api.stream].data)
    /\ api.pos0 # api.size
    /\ Tell(api.stream) = api.size
    /\ Tell(Other(api.stream)) > 0

\* C8: while read() drains the queue its sentinel is queued, at the place the
\* snapshot left it less the chunks taken, so every get returns at once and
\* the snapshot bounds their number; read() returns having taken exactly the
\* chunks of its snapshot, and returns the empty string when the snapshot was
\* empty and the cursor at the end.
C8_ReadNeverBlocks ==
    /\ api.pc = "drain" =>
          /\ api.gets <= api.snap
          /\ Len(strq[api.stream]) >= api.snap - api.gets + 1
          /\ strq[api.stream][api.snap - api.gets + 1] = Sentinel
    /\ JustReturned("read") =>
          /\ api.gets = api.snap
          /\ (api.snap = 0 /\ api.pos0 >= Len(buf[api.stream].data))
                => api.res = <<>>

\* C8 witness: the process is alive with both streams open, and a read() has
\* returned with its snapshot's chunk while the reader thread queued another
\* behind the sentinel.
C8_Witness ==
    /\ JustReturned("read")
    /\ returncode = "None"
    /\ \A s \in OUTPUT_STREAMS : wopen[s]
    /\ api.snap >= 1
    /\ api.left >= 1

(***************************************************************************)
(* Properties of Runner.plan                                               *)
(***************************************************************************)
\* The frame's probe loop is over: plan() returned a handle, or handed over
\* to the re-issued plan().
AttemptOver == pl.pc = "returned" \/ (pl.pc = "spawn" /\ pl.attempt > 0)

\* The stdout marker is in what the last probe read.
ProbeSawMarker == Contains(pl.out, "B")

C10_StartedAtFirstProbe ==
    [][ /\ ( /\ pl.pc = "classify"
             /\ pl.probe = 0
             /\ Contains(pl.out, "R")
             /\ ~Contains(pl.out, "B")
             /\ ~Contains(pl.err, "I")
             /\ pl' # pl )
           => ( /\ pl'.pc = "returned"
                /\ pl'.ret = "plan"
                /\ pl'.inits = 0
                /\ ~init_process'.spawned
                /\ nplan' = nplan )
        /\ pl.pc = "returned"
           => ( /\ pl' = pl
                /\ nplan' = nplan
                /\ init_process'.spawned = init_process.spawned ) ]_vars

C10_Witness ==
    /\ pl.pc = "returned"
    /\ pl.ret = "plan"
    /\ pl.probe = 0
    /\ Contains(pl.out, "R")
    /\ ~Contains(pl.out, "B")
    /\ ~Contains(pl.err, "I")
    /\ pl.inits = 0
    /\ ~init_process.spawned
    /\ nplan = 1

(***************************************************************************)
(* Properties of RunnerPool                                                *)
(***************************************************************************)
\* The keys of the dictionary built from list l: each project once, in the
\* order of its first listing.
RECURSIVE FirstOccurrences(_)
FirstOccurrences(l) ==
    IF l = <<>> THEN <<>>
    ELSE LET d == FirstOccurrences(SubSeq(l, 1, Len(l) - 1)) IN
         IF HasKey(d, l[Len(l)]) THEN d ELSE Append(d, l[Len(l)])

\* The Runner call whose future the dictionary holds for a project: the one
\* submitted last.
LastCall(l, project) ==
    CHOOSE a \in 1..Len(l) :
        l[a] = project /\ \A b \in (a + 1)..Len(l) : l[b] # project

YieldedProjects == [j \in 1..Len(rp_yield) |-> rp_yield[j].project]

\* C11 as stated: once the generator of init(), plan() or apply() has ended,
\* it has yielded one pair for each project of the list, in the order the
\* projects were submitted.
C11_OnePairPerProject ==
    rp.pc \in {"done", "raised"} => YieldedProjects = FirstOccurrences(rp.projects)

\* C11, amended: the pairs yielded are, in submission order and one per
\* project, those of the projects listed before the first project whose
\* Runner call raised; each handle is the one that project's (last
\* submitted) Runner call returned, whatever the order in which calls and
\* processes complete.  The generator ends with every project yielded, or
\* ends by raising what the next project's Runner call raised, and then
\* yields nothing for that project or any later one.
C11_InOrderUntilRaise ==
    LET want == FirstOccurrences(rp.projects) IN
    /\ Len(rp_yield) <= Len(want)
    /\ \A j \in 1..Len(rp_yield) :
          /\ rp_yield[j].project = want[j]
          /\ rp_yield[j].call = LastCall(rp.projects, want[j])
          /\ rp_th[rp_yield[j].call].pc = "returned"
          /\ rp_yield[j].job = rp_th[rp_yield[j].call].ret
    /\ rp.pc = "done" => Len(rp_yield) = Len(want)
    /\ rp.pc = "raised" =>
          /\ Len(rp_yield) < Len(want)
          /\ rp_th[LastCall(rp.projects, want[Len(rp_yield) + 1])].pc = "raised"

\* plan() over three projects has yielded all three pairs although the
\* third project's process finished while the first one's still runs.
C11_Witness ==
    /\ rp.pc = "done"
    /\ rp.operation = "plan"
    /\ rp.projects = <<"p1", "p2", "p3">>
    /\ YieldedProjects = <<"p1", "p2", "p3">>
    /\ rp_th[1].proc = "running"
    /\ rp_th[3].proc = "exited"

RunningCalls == {k \in Calls : rp_th[k].proc = "running"}

\* C12: every running process of a RunnerPool operation is the occupant of
\* a slot of the shared pool, so with a pool of size 1 no two processes
\* (plan or automatically triggered init, of any projects) run at the same
\* time: a process starts only once the slot's previous occupant has exited.
C12_PoolOfOneNoOverlap ==
    /\ \A k \in RunningCalls :
          \E j \in DOMAIN rp_slots : rp_slots[j] = <<k, rp_th[k].njob>>
    /\ Len(rp_slots) = 1 => Cardinality(RunningCalls) <= 1

\* plan() over three projects, pool of size 1: the first project's plan and
\* its automatic init and the second project's plan have run and exited,
\* the third project's plan is running.
C12_Witness ==
    /\ Len(rp_slots) = 1
    /\ rp.operation = "plan"
    /\ rp.projects = <<"p1", "p2", "p3">>
    /\ rp_th[1].njob = 2
    /\ rp_th[1].proc = "exited"
    /\ rp_th[2].proc = "exited"
    /\ rp_th[3].proc = "running"

(***************************************************************************)
(* Further properties of Pool                                              *)
(***************************************************************************)
\* C13: a deferred handle is assigned at most once: a step changes a
\* job's future only by the manager's set_result for the job it holds, only
\* while that future is still unset, and binds it to a spawned process; a
\* bound future keeps its process ever after.
C13_AssignedAtMostOnce ==
    [][ \A j \in Jobs :
           /\ future[j] # 0 => future'[j] = future[j]
           /\ future'[j] # future[j] =>
                 /\ mgr.pc = "scan"
                 /\ mgr.job = j
                 /\ future'[j] \in Pids
                 /\ pargs'[future'[j]] = j ]_vars

\* Three handles are bound in a pool of fewer slots; the first one's process
\* has exited and its slot has been used again.
C13_Witness ==
    /\ \A j \in 1..3 : future[j] # 0
    /\ pstate[future[1]] = "exited"
    /\ \A i \in Slots : pool[i] # future[1]

(***************************************************************************)
(* Further properties of NonBlockingProcess                                *)
(***************************************************************************)
\* C14: in every reachable state the cursor of each stream buffer is at
\* most the length of the buffer's log.
C14_CursorWithinLog ==
    \A s \in OUTPUT_STREAMS : StreamTell(buf[s]) <= Len(buf[s].data)

StreamErrors == {"ValueError", "AttributeError"}

\* C15: a step of seek, tell, read or readall called with a stream name
\* other than stdout or stderr changes neither buffer, neither cursor and
\* neither pending-chunk queue, and the call ends by raising the
\* invalid-stream error (ValueError) with the lock released.
C15_InvalidStreamRejected ==
    [][ ( /\ api' # api
          /\ \/ api.pc = "check"
             \/ api'.pc = "check"
             \/ api'.op \in StreamErrors )
        => ( /\ buf' = buf
             /\ strq' = strq
             /\ \/ api.pc = "idle" /\ api'.pc = "check"
                \/ api'.pc = "idle" /\ api'.op = "ValueError" ) ]_vars

\* An invalid call has raised while a buffer held text, its cursor was off
\* zero and a chunk was pending.
C15_Witness ==
    /\ api.pc = "idle"
    /\ api.op = "ValueError"
    /\ Len(buf["stdout"].data) = 1
    /\ buf["stdout"].pos = 1
    /\ strq["stdout"] # <<>>

(***************************************************************************)
(* Properties of Runner.init, Runner.apply, Runner.state                   *)
(***************************************************************************)
\* C16: an error detectable before spawning aborts before any process
\* starts.  apply() called while default.tfplan is not a file raises
\* AssertionError with no _run_wrapper call and the spawn strategy never
\* invoked; a _run_wrapper call whose credential helper raises does not
\* invoke the spawn strategy, so an operation whose helper fails at its
\* first spawn raises with the strategy never invoked.
C16_NoSpawnOnEarlyError ==
    /\ rn.invoked <= rn.wrappers
    /\ (rn.op = "apply" /\ rn.pc # "assert" /\ ~rn.had_plan) =>
          /\ rn.pc = "raised"
          /\ rn.why = "AssertionError"
          /\ rn.wrappers = 0
          /\ rn.invoked = 0
    /\ (rn.pc = "raised" /\ rn.why = "CredentialError") =>
          /\ rn.invoked = rn.wrappers - 1
          /\ rn.wrappers = 1 => (rn.invoked = 0 /\ rn.pulls = 0 /\ rn.inits = 0)

\* apply() has raised for want of a saved plan, nothing spawned.
C16_Witness ==
    /\ rn.op = "apply"
    /\ rn.pc = "raised"
    /\ rn.why = "AssertionError"
    /\ ~tfplan
    /\ rn.invoked = 0

\* The call of state() is past its loop: it parses, has parsed or has
\* failed to parse.
StateParsing ==
    /\ rn.op = "state"
    /\ \/ rn.pc \in {"parse", "returned"}
       \/ rn.pc = "raised" /\ rn.why = "JSONDecodeError"

\* C19: one call of state() spawns terraform state pull at most twice;
\* init is spawned only after a pull that exited 1 with "Initialization
\* required" on stderr, at most once per pull; and when that init exits
\* non-zero state() raises RuntimeError with no pull spawned after it.
C19_StateRetriesTwice ==
    rn.op = "state" =>
       /\ rn.pulls <= 2
       /\ rn.inits <= rn.pulls
       /\ (rn.cmd = "stateinit" /\ rn.pc \in {"wrap", "initresult"}) =>
             InitializationRequired(pull)
       /\ (rn.pc = "raised" /\ rn.why = "RuntimeError") =>
             /\ state_init.rc \notin {"None", "0"}
             /\ InitializationRequired(pull)
             /\ rn.inits = rn.pulls
       /\ (StateParsing /\ InitializationRequired(pull)) => rn.inits = rn.pulls

\* The second pull needed init too and that init failed.
C19_Witness ==
    /\ rn.op = "state"
    /\ rn.pc = "raised"
    /\ rn.why = "RuntimeError"
    /\ rn.pulls = 2
    /\ rn.okinits = 1
    /\ state_init.rc = "1"

\* C20: state() parses the stdout only of a state pull that did not hit the
\* initialization-required condition, and every init that state() ran
\* successfully has been followed by one more pull when state() parses.
C20_ParseOnlyAfterCleanPull ==
    StateParsing =>
       /\ ~InitializationRequired(pull)
       /\ rn.pulls = rn.okinits + 1

(***************************************************************************)
(* Spawn failure and shutdown of the Pool                                  *)
(***************************************************************************)
\* C17: when the spawn of a job requested through Pool.queue fails (Popen
\* raises in the manager thread), the failure is surfaced to the caller
\* that requested it: the job's deferred handle is resolved, so that the
\* caller's operation on it ends instead of blocking.
C17_SpawnErrorSurfaced ==
    mgr.pc = "crashed" =>
       /\ future[mgr.job] # 0
       /\ \A c \in Clients : cl[c].h = mgr.job => cl[c].pc # "blocked"

\* C18: Pool.shutdown() sets the shutdown event, then joins the manager,
\* and only then waits on the slots in order: while it waits and when it
\* has returned the event is set and the manager thread has ended; every
\* slot it has passed is empty (its wait raised and was swallowed) or holds
\* a process that has exited; when it has returned that is so of every slot.
C18_ShutdownJoinsThenWaits ==
    /\ sd.pc \in {"join", "wait", "done"} => shutdown
    /\ sd.pc \in {"wait", "done"} => mgr.pc \in {"exited", "crashed"}
    /\ sd.pc = "wait" =>
          \A i \in Slots : i < sd.i => (pool[i] = 0 \/ pstate[pool[i]] = "exited")
    /\ sd.pc = "done" =>
          \A i \in Slots : pool[i] = 0 \/ pstate[pool[i]] = "exited"

\* shutdown() has returned from a pool with an occupied slot, whose process
\* it had to wait for, and an empty one.
C18_Witness ==
    /\ sd.pc = "done"
    /\ \E i \in Slots : pool[i] # 0
    /\ \E i \in Slots : pool[i] = 0
    /\ mgr.pc = "exited"

(***************************************************************************)
(* The log of a stream, read() and wait()                                  *)
(***************************************************************************)
\* The characters of the chunks on a queue, in queue order (a sentinel holds
\* none).
RECURSIVE Flatten(_)
Flatten(q) ==
    IF q = <<>> THEN <<>>
    ELSE (IF Head(q) = Sentinel THEN <<>> ELSE Head(q)) \o Flatten(Tail(q))

\* The characters the reader thread of s has put on the queue so far: what it
\* took off the pipe, less the chunk whose decoding raised.
Enqueued_Chars(s) ==
    taken[s] - (IF rd[s].pc = "died" THEN rd[s].size ELSE 0)

IsPrefix(a, b) == Len(a) <= Len(b) /\ SubSeq(b, 1, Len(a)) = a

\* C21: the log of a stream followed by the chunks still queued is, at every
\* moment, what the reader thread enqueued, in its order: each chunk is
\* merged once, at the end of the log, wherever the cursor is; and no step
\* changes what the log already holds.
C21_LogIsMergedChunks ==
    /\ [](\A s \in OUTPUT_STREAMS :
            buf[s].data \o Flatten(strq[s]) = Range(1, Enqueued_Chars(s)))
    /\ [][\A s \in OUTPUT_STREAMS : IsPrefix(buf[s].data, buf'[s].data)]_vars

\* C21 witness: a read() that began with the cursor at the start of a
\* non-empty log has merged a chunk.
C21_Witness ==
    /\ JustReturned("read")
    /\ api.pos0 = 0
    /\ api.gets >= 1
    /\ Len(buf[api.stream].data) > api.gets * ReadBufSize

\* A step in which the call of method op returns.
Returns(op) == api.pc # "idle" /\ api.op = op /\ api'.pc = "idle"

\* C22: read(size, stream) returns the characters of the log from the cursor
\* found when it took the lock, as many as there are up to size (all of them
\* for size < 0), which are the characters so numbered of the transcript,
\* and leaves the cursor advanced by the number returned; a read() that
\* takes the lock next after a read() of the same stream starts where that
\* one ended.
C22_ReadAdvancesCursor ==
    [][/\ Returns("read") =>
            LET s == api.stream
                k == Len(api'.res)
                n == Len(buf'[s].data) IN
            /\ api'.res = SubSeq(buf'[s].data, api.pos0 + 1, api.pos0 + k)
            /\ api'.res = Range(api.pos0 + 1, api.pos0 + k)
            /\ Tell(s)' = api.pos0 + k
            /\ api.size >= 0 => k <= api.size
            /\ (api.size < 0 \/ k < api.size) => api.pos0 + k >= n
       /\ (/\ JustReturned("read")
           /\ api'.pc = "drain"
           /\ api'.op = "read"
           /\ api'.stream = api.stream)
          => api'.pos0 = api.pos0 + Len(api.res)]_vars

\* C22 witness: a read(1) that began at cursor 1 has returned the second
\* character while a third is buffered or the log ends there.
C22_Witness ==
    /\ JustReturned("read")
    /\ api.size = 1
    /\ api.pos0 = 1
    /\ api.res = <<2>>
    /\ Tell(api.stream) = 2

\* C23: wait() is entered past its polling loop, and returns, only with the
\* process exited; when it returns the cursor of each stream is 0, whatever
\* it was before, and a read() that follows it starts at 0 and returns the
\* whole log of its stream, the chunks it merged itself included.
C23_WaitRewinds ==
    /\ [](/\ api.op = "wait" => returncode # "None"
          /\ JustReturned("wait") => \A s \in OUTPUT_STREAMS : Tell(s) = 0)
    /\ [][/\ (JustReturned("wait") /\ api'.pc = "drain" /\ api'.op = "read")
             => api'.pos0 = 0
          /\ (Returns("read") /\ api.pos0 = 0 /\ api.size < 0)
             => api'.res = buf'[api.stream].data]_vars

\* C23 witness: wait() has returned with both logs non-empty, so each cursor
\* was moved to the end by wait's own read before it was set to 0.
C23_Witness ==
    /\ JustReturned("wait")
    /\ \A s \in OUTPUT_STREAMS : buf[s].data # <<>> /\ Tell(s) = 0

(***************************************************************************)
(* The reader threads                                                      *)
(***************************************************************************)
\* The reader thread of s has ended: it left its loop, or an exception ended it.
ReaderEnded(s) == rd[s].pc \in {"done", "died"}

\* C24: a reader thread never ends while its process is still running.
C24_ReaderOutlivesProcess ==
    \A s \in OUTPUT_STREAMS : ReaderEnded(s) => returncode # "None"

\* C25: when a reader thread has ended, everything the process wrote on that
\* stream is on the queue or in the log: nothing is left in the pipe and
\* nothing the reader took was dropped.
C25_NothingLeftUnread ==
    \A s \in OUTPUT_STREAMS :
        ReaderEnded(s) => PipeLen(s) = 0 /\ Enqueued_Chars(s) = written[s]

(***************************************************************************)
(* Further properties of Runner.plan                                       *)
(***************************************************************************)
\* C26: the probe loop runs at most ProbeCap iterations for one plan
\* process (range(120) in the code); when they are used up plan() returns
\* the plan handle in the same step, leaving the process as it is: neither
\* waited for nor terminated, so possibly still running.
C26_ProbeLoopCapped ==
    /\ [](pl.probe <= ProbeCap)
    /\ [][(pl.pc = "readout" /\ pl.probe = ProbeCap /\ pl' # pl)
          => (/\ pl'.pc = "returned"
              /\ pl'.ret = "plan"
              /\ process' = process
              /\ nplan' = nplan
              /\ init_process' = init_process)]_vars

\* C26 witness: plan() has returned after ProbeCap iterations with the plan
\* process still running.
C26_Witness ==
    /\ pl.pc = "returned"
    /\ pl.ret = "plan"
    /\ pl.probe = ProbeCap
    /\ process.rc = "None"

\* The probe at hand, about to be classified, found the plan process exited
\* with a code other than 0 and 2 and read no init-required marker.
ProbeSeesErrorExit ==
    /\ pl.pc = "classify"
    /\ process.rc \notin {"None", "0", "2"}
    /\ ~Contains(pl.out, "B")
    /\ ~Contains(pl.err, "I")

\* The classification ends the loop and plan() returns the plan handle.
BreaksWithPlanHandle == pl'.pc = "returned" /\ pl'.ret = "plan"

\* C27 as stated: a probe that finds the plan process exited with a code
\* other than 0 and 2, and no init-required marker, breaks the loop, and
\* plan() returns the errored handle.
C27_BreaksOnErrorExit ==
    [][(ProbeSeesErrorExit /\ pl' # pl) => BreaksWithPlanHandle]_vars

\* C27, amended: such a probe breaks the loop when what it read holds a
\* newline, in stdout or in stderr; without one it counts as an iteration
\* waiting for the first line, and the loop goes on.
C27_BreaksOnErrorExitAfterFirstLine ==
    [][(ProbeSeesErrorExit /\ pl' # pl) =>
          IF Contains(pl.out, "nl") \/ Contains(pl.err, "nl")
          THEN BreaksWithPlanHandle
          ELSE \/ BreaksWithPlanHandle /\ Contains(pl.out, "R")
               \/ pl'.pc = "readout" /\ pl'.probe = pl.probe + 1]_vars

\* C27 witness: after an earlier probe of the running process, a probe read
\* a line on stderr and neither marker, found exit code 1, and plan()
\* returned the plan handle before the cap.
C27_Witness ==
    /\ pl.pc = "returned"
    /\ pl.ret = "plan"
    /\ process.rc = "1"
    /\ pl.out = <<>>
    /\ pl.err = <<"nl">>
    /\ pl.probe >= 1
    /\ pl.probe < ProbeCap

\* C28: init() is requested only with the plan process of the frame exited
\* (plan() is past process.wait()), so the init process exists only beside
\* an exited plan process; and a probe that read an init-required marker
\* goes to that wait whether or not it also read the "Refreshing" marker.
C28_InitAfterPlanExited ==
    /\ []((pl.pc \in {"init", "initresult"} \/ init_process.spawned)
            => process.rc # "None")
    /\ [][(/\ pl.pc = "classify"
           /\ Contains(pl.out, "B") \/ Contains(pl.err, "I")
           /\ pl' # pl)
          => pl'.pc = "wait"]_vars

\* C28 witness: the probe read both the init-required and the "Refreshing"
\* marker on stdout; the plan process has exited and init is running.
C28_Witness ==
    /\ pl.pc = "initresult"
    /\ init_process.spawned
    /\ init_process.rc = "None"
    /\ Contains(pl.out, "B")
    /\ Contains(pl.out, "R")
    /\ process.rc # "None"

(***************************************************************************)
(* The pool's queue                                                        *)
(***************************************************************************)
QueuedJobs == {job_queue[k] : k \in 1..Len(job_queue)}

\* C29: a job leaves the pool's queue exactly when it is given a slot: every
\* job that was put is still on the queue or has been spawned into a slot
\* (its future is bound), and never both.
C29_DequeuedWhenPlaced ==
    \A j \in Enqueued : (j \in QueuedJobs) # (future[j] # 0)

(***************************************************************************)
(* Termination of Runner.plan                                              *)
(*                                                                         *)
(* plan() re-issues itself by recursion (runner.py:97).  nplan counts the  *)
(* plan processes up to MaxAttempts; the re-issues beyond are not counted, *)
(* so that a call which keeps re-issuing itself comes back to the same     *)
(* states.  Each re-issue is one more Python frame: past the counted       *)
(* attempts the interpreter's recursion limit may be reached.              *)
(***************************************************************************)
\* runner.py:97, 78-80: a re-issue beyond the counted attempts spawns its
\* plan process.
PlanRespawn ==
    /\ pl.pc = "spawn"
    /\ nplan = MaxAttempts
    /\ process' = NoProcess
    /\ init_process' = NoInit
    /\ pl' = [NoPlan EXCEPT !.pc = "readout", !.attempt = nplan]
    /\ UNCHANGED nplan
    /\ UNCHANGED notPlanVars

\* runner.py:97: the call self.plan() exceeds the interpreter's recursion
\* limit; RecursionError propagates through every frame to the caller.
PlanRecursionError ==
    /\ pl.pc = "spawn"
    /\ nplan = MaxAttempts
    /\ pl' = [pl EXCEPT !.pc = "recursion_error"]
    /\ UNCHANGED <<process, init_process, nplan>>
    /\ UNCHANGED notPlanVars

\* The steps of the thread that called plan().
PlanThread ==
    \/ PlanSpawn
    \/ PlanRespawn
    \/ LoopExhausted
    \/ ProbeReadOut
    \/ ProbeReadErr
    \/ NeedsInit
    \/ Started
    \/ WaitFirstLine
    \/ ReturncodeBreak
    \/ ReturncodeContinue
    \/ PlanWait
    \/ InitCall
    \/ InitFailed
    \/ InitSucceeded

PlanFairNext ==
    \/ PlanNext
    \/ PlanRespawn
    \/ PlanRecursionError

\* One call of plan() whose thread keeps running, whose processes all exit,
\* and whose recursion cannot go on for ever.
SpecPlanFair ==
    /\ Init
    /\ [][PlanFairNext]_vars
    /\ WF_vars(PlanThread)
    /\ WF_vars(\E rc \in PlanExitCodes : PlanExit(rc))
    /\ WF_vars(\E rc \in InitExitCodes : InitExit(rc))
    /\ SF_vars(PlanRecursionError)

\* C30: when every spawned process exits, a call of plan() comes to an end
\* by returning a handle (or by passing on the error of a spawn that could
\* not be launched), after boundedly many spawns.
C30_PlanReturns ==
    (pl.pc = "spawn") ~> (pl.pc \in {"returned", "raised"})

(***************************************************************************)
(* Liveness of Pool.shutdown                                               *)
(***************************************************************************)
\* The steps of the manager thread (a spawn that raises is the spawn's
\* doing, not a step the thread is bound to take).
MgrThread ==
    \/ MgrLoop
    \/ MgrGetJob
    \/ MgrGetEmpty
    \/ MgrScanBusy
    \/ MgrSchedule
    \/ MgrSleep

\* The steps of the thread inside Pool.shutdown().
ShutdownThread ==
    \/ ShutdownJoin
    \/ ShutdownWait
    \/ ShutdownDone

\* The pool with its threads running on and every spawned process exiting.
SpecPoolFair ==
    /\ Init
    /\ [][PoolNext]_vars
    /\ WF_vars(MgrThread)
    /\ WF_vars(ShutdownThread)
    /\ \A p \in Pids : WF_vars(ProcExit(p))

\* C31: a call of shutdown() returns; and a handle that queue() had handed
\* out before shutdown() was called is bound once shutdown() has returned
\* (the case of a spawn that raised in the manager thread set apart).
C31_ShutdownReturnsAllBound ==
    /\ (sd.pc = "join") ~> (sd.pc = "done")
    /\ \A j \in Jobs :
          [](((j \in Enqueued) /\ ~shutdown)
                => [](sd.pc = "done" => (future[j] # 0 \/ mgr.pc = "crashed")))

(***************************************************************************)
(* Liveness of RunnerPool.plan                                             *)
(***************************************************************************)
\* runner.py:85-97: the plan asks for init again after every successful
\* init; plan() re-issues itself in its own frame each time, and past the
\* jobs counted here the interpreter's recursion limit ends the call with
\* RecursionError in its executor thread.
RunRecursionError(k) ==
    /\ rp_th[k].pc \in {"probe", "initresult"}
    /\ CallProcessExited(k)
    /\ rp_th[k].njob = MaxCallJobs
    /\ rp_th' = [rp_th EXCEPT ![k].pc = "raised"]
    /\ UNCHANGED <<rp, rp_results, rp_queue, rp_slots, rp_mgr, rp_yield>>
    /\ UNCHANGED notRpVars

\* The steps of the thread that draws the generator.
GenThread ==
    \/ GenSubmit
    \/ GenExecutorShutdown
    \/ GenYield
    \/ GenRaise
    \/ GenDone

\* The steps of the executor thread running the k-th Runner call, no spawn
\* of which fails.
CallThread(k) ==
    \/ RunQueue(k)
    \/ RunPlanReturn(k)
    \/ RunNeedsInit(k)
    \/ RunInitFailed(k)
    \/ RunInitSucceeded(k)
    \/ RunRecursionError(k)

RPFairNext ==
    \/ \E projects \in ProjectLists, w \in 1..MaxConcurrency :
          RunnerPoolCreate(projects, w)
    \/ \E operation \in Operations : RunWrapper(operation)
    \/ GenThread
    \/ \E k \in Calls : CallThread(k)
    \/ \E k \in Calls : RunProcessExit(k)
    \/ RunMgrSchedule

\* The RunnerPool with its threads running on, every spawned process exiting
\* and no spawn failing.
SpecRunnerPoolFair ==
    /\ Init
    /\ [][RPFairNext]_vars
    /\ WF_vars(GenThread)
    /\ \A k \in Calls : WF_vars(CallThread(k))
    /\ \A k \in Calls : WF_vars(RunProcessExit(k))
    /\ WF_vars(RunMgrSchedule)

\* C32: once RunnerPool.plan() has been started, its generator comes to its
\* end having yielded the pair of every project.
C32_EveryPairYielded ==
    (rp.pc = "submit" /\ rp.operation = "plan")
        ~> (/\ rp.pc = "done"
            /\ \A a \in 1..Len(rp.projects) :
                  \E y \in 1..Len(rp_yield) : rp_yield[y].project = rp.projects[a])

\* The same with no plan asking for init without end: the scheduling through
\* the bounded pool holds nothing back.
SchedulingNext ==
    \/ \E projects \in ProjectLists, w \in 1..MaxConcurrency :
          RunnerPoolCreate(projects, w)
    \/ \E operation \in Operations : RunWrapper(operation)
    \/ GenThread
    \/ \E k \in Calls : RunQueue(k)
    \/ \E k \in Calls : RunPlanReturn(k)
    \/ \E k \in Calls : RunNeedsInit(k)
    \/ \E k \in Calls : RunInitFailed(k)
    \/ \E k \in Calls : RunInitSucceeded(k)
    \/ \E k \in Calls : RunProcessExit(k)
    \/ RunMgrSchedule

SpecScheduling ==
    /\ Init
    /\ [][SchedulingNext]_vars
    /\ WF_vars(GenThread)
    /\ \A k \in Calls : WF_vars(RunQueue(k) \/ RunPlanReturn(k) \/ RunNeedsInit(k)
                                   \/ RunInitFailed(k) \/ RunInitSucceeded(k))
    /\ \A k \in Calls : WF_vars(RunProcessExit(k))
    /\ WF_vars(RunMgrSchedule)

====
